---- MODULE Spec2Model ----
(***************************************************************************)
(* Model of vnpy_ksgold/gateway/ksgold_gateway.py: the KsgoldGateway       *)
(* polling timer, the market-data connection KsgoldMdApi and the trading   *)
(* connection KsgoldTdApi with its pending order/trade buffers and the     *)
(* module-level identifier caches.                                         *)
(*                                                                         *)
(* Python dicts are functions (the domain is the key set), lists are       *)
(* sequences.  A handler is an operator from a "world" record (all of the  *)
(* program state plus the observable outputs) to the world it leaves       *)
(* behind; an uncaught Python exception aborts the handler at the raising  *)
(* statement, keeps every assignment made before it and is recorded in     *)
(* hist.exc.                                                               *)
(***************************************************************************)
EXTENDS Integers, Sequences, FiniteSets, TLC

VARIABLES
    gw,     \* KsgoldGateway fields: count, query_functions (+ inited)
    md,     \* KsgoldMdApi fields
    td,     \* KsgoldTdApi fields
    maps,   \* module-level cache dicts
    out,    \* what the gateway hands to the host: events and log lines
    ven,    \* the vendor library: calls received, link and request state
    hist,   \* observation of the run (arrival numbers, handler outcomes)
    pc      \* where the host thread and the callback thread are

vars == <<gw, md, td, maps, out, ven, hist, pc>>

----------------------------------------------------------------------------
(* Bounds of the exploration *)

MaxOrders  == 2     \* order reports delivered by the vendor
MaxTrades  == 1     \* trade reports delivered by the vendor
MaxInstr   == 3     \* instrument-catalog responses delivered
MaxLogins  == 2     \* trading login responses delivered
MaxRetry   == 1     \* refused reqQryInstrument calls before the accepted one
MaxSend    == 2     \* send_order calls
MaxCancel  == 1     \* cancel_order calls
MaxSub     == 2     \* subscribe calls
MaxMdLogin == 2     \* market-data login responses delivered
MaxTicks   == 6     \* timer ticks
MaxInit    == 2     \* connect calls of the host
MaxBoot    == 1     \* connect calls of the host during the catalog load
MaxReqOrders == 1   \* order reports delivered between the host's requests
MaxXlat    == 3     \* offset translations looked up
MaxPosRsp  == 2     \* position query responses delivered
MaxTickData == 1    \* tick payloads delivered

----------------------------------------------------------------------------
(* Vendor codes and translation tables *)

KS_P_OPEN   == "KS_P_OPEN"
KS_P_OFFSET == "KS_P_OFFSET"
KS_BUY      == "KS_BUY"
KS_SELL     == "KS_SELL"
\* the Python int key 48 of OFFSET_KSGOLD2VT, kept apart from the two
\* string-valued primary codes
Code48      == "48"
\* a code the vendor can send that no table lists
CodeOther   == "other"

Get(d, k, default) == IF k \in DOMAIN d THEN d[k] ELSE default

Put(d, k, v) == (k :> v) @@ d

Invert(d) == [v \in {d[k] : k \in DOMAIN d} |-> CHOOSE k \in DOMAIN d : d[k] = v]

STATUS_KSGOLD2VT ==
    [c \in {"KS_Entrust_Sending", "KS_Entrust_Waiting", "KS_Entrust_Error",
            "KS_Entrust_In", "KS_Entrust_Part_Done", "KS_Entrust_All_Done",
            "KS_Entrust_All_Cancel", "KS_Entrust_Part_Done_Cancel",
            "KS_Entrust_Wait_Cancel"} |->
        CASE c = "KS_Entrust_Sending"          -> "SUBMITTING"
          [] c = "KS_Entrust_Waiting"          -> "NOTTRADED"
          [] c = "KS_Entrust_Error"            -> "REJECTED"
          [] c = "KS_Entrust_In"               -> "NOTTRADED"
          [] c = "KS_Entrust_Part_Done"        -> "PARTTRADED"
          [] c = "KS_Entrust_All_Done"         -> "ALLTRADED"
          [] c = "KS_Entrust_All_Cancel"       -> "CANCELLED"
          [] c = "KS_Entrust_Part_Done_Cancel" -> "CANCELLED"
          [] c = "KS_Entrust_Wait_Cancel"      -> "SUBMITTING"]

DIRECTION_VT2KSGOLD == [d \in {"LONG", "SHORT"} |-> IF d = "LONG" THEN KS_BUY ELSE KS_SELL]

DIRECTION_KSGOLD2VT == Invert(DIRECTION_VT2KSGOLD)

OFFSET_VT2KSGOLD == [o \in {"OPEN", "CLOSE"} |-> IF o = "OPEN" THEN KS_P_OPEN ELSE KS_P_OFFSET]

OFFSET_KSGOLD2VT_Alias48Close == Put(Invert(OFFSET_VT2KSGOLD), Code48, "CLOSE")

OFFSET_KSGOLD2VT == Put(Invert(OFFSET_VT2KSGOLD), Code48, "OPEN")

----------------------------------------------------------------------------
(* Domains of the vendor payloads *)

Symbols == {"A", "B"}

Exchange_SGE == "SGE"

Names == {"n1"}

\* The vendor's order book: system order number k belongs to one order,
\* with one instrument and one (FrontID, SessionID, OrderRef).
SysNos == {1, 2}

VendorOrder(k) ==
    CASE k = 1 -> [InstID |-> "A", FrontID |-> 1, SessionID |-> 1, OrderRef |-> 1]
      [] k = 2 -> [InstID |-> "B", FrontID |-> 1, SessionID |-> 2, OrderRef |-> 1]

LocalNos == {11}

OrderOffsetFlags == {KS_P_OPEN, CodeOther}

TradeOffsetFlags == {KS_P_OFFSET, CodeOther}

SessionIDs == {1, 2}

\* payload of onRtnOrder; seq is the arrival number of the report
OrderPayload(n, k, l, o) ==
    [seq |-> n, InstID |-> VendorOrder(k).InstID,
     FrontID |-> VendorOrder(k).FrontID, SessionID |-> VendorOrder(k).SessionID,
     OrderRef |-> VendorOrder(k).OrderRef, LocalOrderNo |-> l, OrderNo |-> k,
     BuyOrSell |-> KS_BUY, OffsetFlag |-> o, Status |-> "KS_Entrust_In"]

\* payload of onRtnTrade; seq is the arrival number of the report
TradePayload(n, k, o) ==
    [seq |-> n, InstID |-> VendorOrder(k).InstID, OrderNo |-> k, MatchNo |-> n,
     BuyOrSell |-> KS_SELL, OffSetFlag |-> o]

InstrumentPayload(s, nm) == [InstID |-> s, Name |-> nm, Unit |-> 1, MarketID |-> "m"]

\* payload of onRspQryInstrument with every field of the reference entry free
InstrumentData(s, nm, unit, market) ==
    [InstID |-> s, Name |-> nm, Unit |-> unit, MarketID |-> market]

OrderId(frontid, sessionid, order_ref) == <<frontid, sessionid, order_ref>>

----------------------------------------------------------------------------
(* The world a handler runs in *)

World == [gw |-> gw, md |-> md, td |-> td, maps |-> maps, out |-> out,
          ven |-> ven, hist |-> hist]

Raise(w, e) == [w EXCEPT !.hist.exc = e]

write_log(w, msg, code) == [w EXCEPT !.out.logs = Append(@, [msg |-> msg, code |-> code])]

write_error(w, msg, error) == write_log(w, msg, error.ErrorID)

on_order(w, order) == [w EXCEPT !.out.orders = Append(@, order)]

on_trade(w, trade) == [w EXCEPT !.out.trades = Append(@, trade)]

on_position(w, position) == [w EXCEPT !.out.positions = Append(@, position)]

\* out.tick is the latest tick handed to the host
on_tick(w, tick) == [w EXCEPT !.out.tick = tick]

on_contract(w, symbol) == [w EXCEPT !.out.contracts = Append(@, symbol)]

VendorCall(w, call) == [w EXCEPT !.ven.calls = Append(@, call)]

----------------------------------------------------------------------------
(* KsgoldTdApi: order and trade reports *)

RegisterSys_KeyLocal(w, data, orderid) ==
    [w EXCEPT !.td.sysid_orderid_map = Put(@, data.LocalOrderNo, orderid)]

\* self.sysid_orderid_map[data["OrderNo"]] = orderid
RegisterSys(w, data, orderid) ==
    [w EXCEPT !.td.sysid_orderid_map = Put(@, data.OrderNo, orderid)]

onRtnOrder(w, data) ==
    LET symbol   == data.InstID
        exchange == Get(w.maps.symbol_exchange_map, symbol, "")
    IN  IF exchange = ""
        THEN [w EXCEPT !.td.order_data = Append(@, data)]
        ELSE
          LET orderid == OrderId(data.FrontID, data.SessionID, data.OrderRef)
              localid == data.LocalOrderNo
              w1 == [w EXCEPT
                       !.maps.orderid_localid_map = Put(@, orderid, localid),
                       !.maps.localid_orderid_map = Put(@, localid, orderid),
                       !.hist.handledOrd =
                           Append(@, [seq |-> data.seq, orderid |-> orderid,
                                      localid |-> localid])]
          IN  IF \/ data.BuyOrSell \notin DOMAIN DIRECTION_KSGOLD2VT
                 \/ data.OffsetFlag \notin DOMAIN OFFSET_KSGOLD2VT
                 \/ data.Status \notin DOMAIN STATUS_KSGOLD2VT
              THEN Raise(w1, "KeyError")
              ELSE
                LET order == [symbol |-> symbol, exchange |-> exchange,
                              orderid |-> orderid,
                              direction |-> DIRECTION_KSGOLD2VT[data.BuyOrSell],
                              offset |-> OFFSET_KSGOLD2VT[data.OffsetFlag],
                              status |-> STATUS_KSGOLD2VT[data.Status]]
                    w2 == on_order(w1, order)
                IN  [RegisterSys(w2, data, orderid) EXCEPT
                       !.hist.processedOrd =
                           Append(@, [seq |-> data.seq, OrderNo |-> data.OrderNo,
                                      orderid |-> orderid])]

onRtnTrade(w, data) ==
    LET symbol   == data.InstID
        exchange == Get(w.maps.symbol_exchange_map, symbol, "")
    IN  IF exchange = ""
        THEN [w EXCEPT !.td.trade_data = Append(@, data)]
        ELSE
          IF data.OrderNo \notin DOMAIN w.td.sysid_orderid_map
          THEN Raise(w, "KeyError")
          ELSE
            LET orderid == w.td.sysid_orderid_map[data.OrderNo]
            IN  IF \/ data.BuyOrSell \notin DOMAIN DIRECTION_KSGOLD2VT
                   \/ data.OffSetFlag \notin DOMAIN OFFSET_KSGOLD2VT
                THEN Raise(w, "KeyError")
                ELSE
                  LET trade == [symbol |-> symbol, exchange |-> exchange,
                                orderid |-> orderid, tradeid |-> data.MatchNo,
                                direction |-> DIRECTION_KSGOLD2VT[data.BuyOrSell],
                                offset |-> OFFSET_KSGOLD2VT[data.OffSetFlag]]
                      w1 == on_trade(w, trade)
                  IN  [w1 EXCEPT
                         !.hist.processedTrd =
                             Append(@, [seq |-> data.seq, OrderNo |-> data.OrderNo,
                                        orderid |-> orderid])]

----------------------------------------------------------------------------
(* KsgoldTdApi.onRspQryInstrument and its replay loops.                     *)
(*                                                                         *)
(* "for data in self.order_data: self.onRtnOrder(data)" iterates the list  *)
(* the handler appends to.  The first n0 iterations visit the payloads     *)
(* that were buffered when the loop started; a payload whose symbol is     *)
(* still unknown is appended again, and once the iterator gets to such a   *)
(* re-appended payload every further iteration appends one more: the loop  *)
(* never ends (hist.hung).                                                 *)

RECURSIVE ReplayOrders(_, _, _)
ReplayOrders(w, i, n0) ==
    IF w.hist.exc # "" THEN w
    ELSE IF i > n0
         THEN IF Len(w.td.order_data) > n0
              THEN [w EXCEPT !.hist.hung = TRUE]
              ELSE [w EXCEPT !.td.order_data = <<>>]
         ELSE LET data == w.td.order_data[i]
                  w1 == [w EXCEPT !.hist.replayedOrd = Append(@, data.seq)]
              IN  ReplayOrders(onRtnOrder(w1, data), i + 1, n0)

RECURSIVE ReplayTrades(_, _, _)
ReplayTrades(w, i, n0) ==
    IF w.hist.exc # "" \/ w.hist.hung THEN w
    ELSE IF i > n0
         THEN IF Len(w.td.trade_data) > n0
              THEN [w EXCEPT !.hist.hung = TRUE]
              ELSE [w EXCEPT !.td.trade_data = <<>>]
         ELSE LET data == w.td.trade_data[i]
                  w1 == [w EXCEPT !.hist.replayedTrd = Append(@, data.seq)]
              IN  ReplayTrades(onRtnTrade(w1, data), i + 1, n0)

onRspQryInstrument_KeepFirst(w, data, last) ==
    LET symbol == data.InstID
        w1 == on_contract(w, symbol)
        w2 == IF symbol \in DOMAIN w1.maps.symbol_exchange_map THEN w1
              ELSE [w1 EXCEPT
                 !.maps.symbol_exchange_map = Put(@, symbol, Exchange_SGE),
                 !.maps.symbol_name_map     = Put(@, symbol, data.Name),
                 !.maps.symbol_size_map     = Put(@, symbol, data.Unit),
                 !.maps.symbol_market_map   = Put(@, symbol, data.MarketID)]
    IN  IF last
        THEN LET w3 == write_log(w2, "instrument query done", 0)
                 w4 == ReplayOrders(w3, 1, Len(w3.td.order_data))
                 w5 == ReplayTrades(w4, 1, Len(w4.td.trade_data))
             IN  IF w5.hist.exc = "" /\ ~w5.hist.hung
                 THEN [w5 EXCEPT !.hist.catalogDone = TRUE]
                 ELSE w5
        ELSE w2

\* on_contract and "symbol_exchange_map[contract.symbol] = contract.exchange"
InstrumentWriteExchange(w, data) ==
    [on_contract(w, data.InstID) EXCEPT
       !.maps.symbol_exchange_map = Put(@, data.InstID, Exchange_SGE)]

\* "symbol_name_map[contract.symbol] = contract.name"
InstrumentWriteName(w, data) ==
    [w EXCEPT !.maps.symbol_name_map = Put(@, data.InstID, data.Name)]

\* "symbol_size_map[contract.symbol] = contract.size"
InstrumentWriteSize(w, data) ==
    [w EXCEPT !.maps.symbol_size_map = Put(@, data.InstID, data.Unit)]

\* "symbol_market_map[contract.symbol] = data["MarketID"]"
InstrumentWriteMarket(w, data) ==
    [w EXCEPT !.maps.symbol_market_map = Put(@, data.InstID, data.MarketID)]

\* "if last: ..." with the two replay loops
InstrumentFinish(w2, last) ==
    IF last
    THEN LET w3 == write_log(w2, "instrument query done", 0)
             w4 == ReplayOrders(w3, 1, Len(w3.td.order_data))
             w5 == ReplayTrades(w4, 1, Len(w4.td.trade_data))
         IN  IF w5.hist.exc = "" /\ ~w5.hist.hung
             THEN [w5 EXCEPT !.hist.catalogDone = TRUE]
             ELSE w5
    ELSE w2

onRspQryInstrument(w, data, last) ==
    LET w1 == InstrumentWriteExchange(w, data)
        w2 == InstrumentWriteMarket(
                  InstrumentWriteSize(InstrumentWriteName(w1, data), data), data)
    IN  InstrumentFinish(w2, last)

----------------------------------------------------------------------------
(* KsgoldTdApi: connection, login, requests *)

td_login_NoGuard(w) ==
    LET w1 == [w EXCEPT !.td.reqid = @ + 1]
    IN  [VendorCall(w1, [api |-> "td", fn |-> "reqUserLogin",
                         reqid |-> w1.td.reqid, arg |-> "login"])
           EXCEPT !.ven.td_loginPending = TRUE]

td_login(w) ==
    IF w.td.login_failed
    THEN w
    ELSE LET w1 == [w EXCEPT !.td.reqid = @ + 1]
         IN  [VendorCall(w1, [api |-> "td", fn |-> "reqUserLogin",
                              reqid |-> w1.td.reqid, arg |-> "login"])
                EXCEPT !.ven.td_loginPending = TRUE]

td_onFrontConnected(w) ==
    td_login(write_log(w, "td front connected", 0))

td_onFrontDisconnected_ClearIds(w) ==
    [w EXCEPT !.td.connect_status = FALSE, !.td.login_status = FALSE,
              !.maps.orderid_localid_map = <<>>,
              !.maps.localid_orderid_map = <<>>]

td_onFrontDisconnected(w) ==
    write_log([w EXCEPT !.td.login_status = FALSE], "td front disconnected", 0)

\* the "while True" loop: nfail calls of reqQryInstrument are refused
\* (nonzero return, sleep, retry) and the next one is accepted
QryInstrumentAttempt_SameReqid(w, n) ==
    LET w2 == VendorCall(w, [api |-> "td", fn |-> "reqQryInstrument",
                             reqid |-> w.td.reqid, arg |-> n])
    IN  IF n = 0 THEN [w2 EXCEPT !.ven.qryPending = TRUE] ELSE w2

\* one pass of the loop: "self.reqid += 1; n = self.reqQryInstrument({},
\* self.reqid)"; the call record keeps the vendor's return code n
QryInstrumentAttempt(w, n) ==
    LET w1 == [w EXCEPT !.td.reqid = @ + 1]
        w2 == VendorCall(w1, [api |-> "td", fn |-> "reqQryInstrument",
                              reqid |-> w1.td.reqid, arg |-> n])
    IN  IF n = 0 THEN [w2 EXCEPT !.ven.qryPending = TRUE] ELSE w2

RECURSIVE QryInstrumentLoop(_, _)
QryInstrumentLoop(w, nfail) ==
    LET w2 == QryInstrumentAttempt(w, nfail)
    IN  IF nfail = 0
        THEN w2
        ELSE QryInstrumentLoop(w2, nfail - 1)

\* the successful branch up to the loop
LoginAccepted(w, data) ==
    LET w1 == [w EXCEPT !.td.frontid = data.FrontID,
                        !.td.sessionid = data.SessionID,
                        !.td.login_status = TRUE]
    IN  write_log(w1, "td login done", 0)

td_onRspUserLogin(w, data, error, nfail) ==
    IF error.ErrorID = 0
    THEN QryInstrumentLoop(LoginAccepted(w, data), nfail)
    ELSE write_error([w EXCEPT !.td.login_failed = TRUE], "td login failed", error)

td_connect(w) ==
    IF ~w.td.connect_status
    THEN [VendorCall(w, [api |-> "td", fn |-> "init", reqid |-> 0, arg |-> "init"])
            EXCEPT !.td.connect_status = TRUE]
    ELSE w

\* send_order from the request dict to the return of reqOrderInsert; the
\* vendor keeps the request with the order id send_order is about to assign
SubmitOrderCall(w1, req) ==
    LET ksgold_req ==
            [InstID |-> req.symbol,
             BuyOrSell |-> Get(DIRECTION_VT2KSGOLD, req.direction, ""),
             OffsetFlag |-> Get(OFFSET_VT2KSGOLD, req.offset, ""),
             MarketID |-> w1.maps.symbol_market_map[req.symbol],
             OrderRef |-> w1.td.order_ref,
             SessionID |-> w1.td.sessionid]
        w2 == [w1 EXCEPT !.td.reqid = @ + 1]
        w3 == VendorCall(w2, [api |-> "td", fn |-> "reqOrderInsert",
                              reqid |-> w2.td.reqid, arg |-> ksgold_req])
        orderid == OrderId(w3.td.frontid, w3.td.sessionid, w3.td.order_ref)
    IN  [w3 EXCEPT
           !.ven.inserts = @ \cup {[req |-> ksgold_req, assigned |-> orderid]}]

\* send_order after reqOrderInsert has returned
SubmitOrderEmit(w3, req) ==
    LET orderid == OrderId(w3.td.frontid, w3.td.sessionid, w3.td.order_ref)
        order == [symbol |-> req.symbol, exchange |-> Exchange_SGE,
                  orderid |-> orderid, direction |-> req.direction,
                  offset |-> req.offset, status |-> "SUBMITTING"]
        w4 == on_order(w3, order)
    IN  [w4 EXCEPT !.hist.ret = orderid]

\* send_order after the offset check and the increment of order_ref
SubmitOrder(w1, req) ==
    IF req.symbol \notin DOMAIN w1.maps.symbol_market_map
    THEN Raise(w1, "KeyError")
    ELSE SubmitOrderEmit(SubmitOrderCall(w1, req), req)

send_order_RefFirst(w, req) ==
    LET w1 == [w EXCEPT !.td.order_ref = @ + 1]
    IN  IF req.offset \notin DOMAIN OFFSET_VT2KSGOLD
        THEN [write_log(w1, "choose an offset", 0) EXCEPT !.hist.ret = <<>>]
        ELSE SubmitOrder(w1, req)

\* hist.ret is the returned order id: <<>> stands for the empty string
send_order(w, req) ==
    IF req.offset \notin DOMAIN OFFSET_VT2KSGOLD
    THEN [write_log(w, "choose an offset", 0) EXCEPT !.hist.ret = <<>>]
    ELSE SubmitOrder([w EXCEPT !.td.order_ref = @ + 1], req)

cancel_order_Unguarded(w, req) ==
    LET localid == Get(w.maps.orderid_localid_map, req.orderid, 0)
        w1 == [w EXCEPT !.td.reqid = @ + 1]
    IN  VendorCall(w1, [api |-> "td", fn |-> "reqOrderAction", reqid |-> w1.td.reqid,
                        arg |-> [LocalOrderNo |-> localid]])

cancel_order(w, req) ==
    IF req.orderid \notin DOMAIN w.maps.orderid_localid_map
    THEN Raise(w, "KeyError")
    ELSE
      LET localid == w.maps.orderid_localid_map[req.orderid]
          w1 == [w EXCEPT !.td.reqid = @ + 1]
      IN  VendorCall(w1, [api |-> "td", fn |-> "reqOrderAction",
                          reqid |-> w1.td.reqid,
                          arg |-> [LocalOrderNo |-> localid]])

onRspOrderInsert(w, data, error) ==
    LET orderid == OrderId(w.td.frontid, w.td.sessionid, data.OrderRef)
        symbol  == data.InstID
    IN  IF symbol \notin DOMAIN w.maps.symbol_exchange_map
        THEN Raise(w, "KeyError")
        ELSE IF data.BuyOrSell \notin DOMAIN DIRECTION_KSGOLD2VT
        THEN Raise(w, "KeyError")
        ELSE
          LET order == [symbol |-> symbol,
                        exchange |-> w.maps.symbol_exchange_map[symbol],
                        orderid |-> orderid,
                        direction |-> DIRECTION_KSGOLD2VT[data.BuyOrSell],
                        offset |-> Get(OFFSET_KSGOLD2VT, data.OffsetFlag, "NONE"),
                        status |-> "REJECTED"]
          IN  write_error(on_order(w, order), "order insert failed", error)

query_account(w) ==
    LET w1 == [w EXCEPT !.td.reqid = @ + 1]
    IN  VendorCall(w1, [api |-> "td", fn |-> "reqQryTradingAccount",
                        reqid |-> w1.td.reqid, arg |-> "account"])

query_position(w) ==
    IF DOMAIN w.maps.symbol_exchange_map = {}
    THEN w
    ELSE LET w1 == [w EXCEPT !.td.reqid = @ + 1]
         IN  VendorCall(w1, [api |-> "td", fn |-> "reqQryInvestorPosition",
                             reqid |-> w1.td.reqid, arg |-> "position"])

onRspQryInvestorPosition_SkipOnlyLogged(w, data, error) ==
    LET error_id == error.ErrorID
    IN  IF error_id # 0 /\ error_id # 10001
        THEN write_log(w, "query position failed", error_id)
        ELSE
          LET long_position == [symbol |-> data.InstID, exchange |-> Exchange_SGE,
                                direction |-> "LONG", volume |-> data.LongPosiVol]
              short_position == [symbol |-> data.InstID, exchange |-> Exchange_SGE,
                                 direction |-> "SHORT", volume |-> data.ShortPosiVol]
          IN  on_position(on_position(w, long_position), short_position)

onRspQryInvestorPosition(w, data, error) ==
    LET error_id == error.ErrorID
    IN  IF error_id # 0
        THEN IF error_id = 10001
             THEN w
             ELSE write_log(w, "query position failed", error_id)
        ELSE
          LET long_position == [symbol |-> data.InstID, exchange |-> Exchange_SGE,
                                direction |-> "LONG", volume |-> data.LongPosiVol]
              short_position == [symbol |-> data.InstID, exchange |-> Exchange_SGE,
                                 direction |-> "SHORT", volume |-> data.ShortPosiVol]
          IN  on_position(on_position(w, long_position), short_position)

----------------------------------------------------------------------------
(* KsgoldMdApi *)

md_login(w) ==
    LET w1 == [w EXCEPT !.md.reqid = @ + 1]
    IN  [VendorCall(w1, [api |-> "md", fn |-> "reqUserLogin", reqid |-> w1.md.reqid,
                         arg |-> "login"])
           EXCEPT !.ven.md_loginPending = TRUE]

md_onFrontConnected(w) ==
    md_login(write_log(w, "md front connected", 0))

md_onFrontDisconnected(w) ==
    write_log([w EXCEPT !.md.login_status = FALSE], "md front disconnected", 0)

\* "for symbol in self.subscribed: self.subscribeMarketData(symbol)";
\* the iteration order of a Python set is not fixed by the program
RECURSIVE SubscribeAll(_, _)
SubscribeAll(w, todo) ==
    IF todo = {}
    THEN w
    ELSE LET symbol == CHOOSE s \in todo : TRUE
         IN  SubscribeAll(
                 VendorCall(w, [api |-> "md", fn |-> "subscribeMarketData",
                                reqid |-> 0, arg |-> symbol]),
                 todo \ {symbol})

md_onRspUserLogin(w, error) ==
    IF error.ErrorID = 0
    THEN LET w1 == write_log([w EXCEPT !.md.login_status = TRUE], "md login done", 0)
         IN  SubscribeAll(w1, w1.md.subscribed)
    ELSE write_error(w, "md login failed", error)

md_connect(w) ==
    IF ~w.md.connect_status
    THEN [VendorCall(w, [api |-> "md", fn |-> "init", reqid |-> 0, arg |-> "init"])
            EXCEPT !.md.connect_status = TRUE]
    ELSE IF ~w.md.login_status
         THEN md_login(w)
         ELSE w

md_subscribe_Always(w, req) ==
    LET w1 == [w EXCEPT !.md.reqid = @ + 1]
        w2 == VendorCall(w1, [api |-> "md", fn |-> "subscribeMarketData",
                              reqid |-> w1.md.reqid, arg |-> req.symbol])
    IN  [w2 EXCEPT !.md.subscribed = @ \cup {req.symbol}]

md_subscribe(w, req) ==
    LET w2 == IF w.md.login_status
              THEN LET w1 == [w EXCEPT !.md.reqid = @ + 1]
                   IN  VendorCall(w1, [api |-> "md", fn |-> "subscribeMarketData",
                                       reqid |-> w1.md.reqid, arg |-> req.symbol])
              ELSE w
    IN  [w2 EXCEPT !.md.subscribed = @ \cup {req.symbol}]

\* sys.float_info.max, one distinguished value
MAX_FLOAT == 999

adjust_price_Identity(price) == price

adjust_price(price) == IF price = MAX_FLOAT THEN 0 ELSE price

\* TickData(...) leaves the levels 2 to 5 at their default 0; the datetime
\* of the tick is not modelled
onRtnDepthMarketData(w, data) ==
    LET symbol   == data.InstID
        exchange == Get(w.maps.symbol_exchange_map, symbol, "")
    IN  IF exchange = ""
        THEN w
        ELSE IF symbol \notin DOMAIN w.maps.symbol_name_map
        THEN Raise(w, "KeyError")
        ELSE
          LET tick == [symbol |-> symbol, exchange |-> exchange,
                       name |-> w.maps.symbol_name_map[symbol],
                       volume |-> data.Volume,
                       open_interest |-> data.OpenInt,
                       last_price |-> data.Last,
                       limit_up |-> data.highLimit,
                       limit_down |-> data.lowLimit,
                       open_price |-> adjust_price(data.Open),
                       high_price |-> adjust_price(data.Highest),
                       low_price |-> adjust_price(data.Low),
                       pre_close |-> adjust_price(data.PreClose),
                       bid_price_1 |-> adjust_price(data.Bid1),
                       ask_price_1 |-> adjust_price(data.Ask1),
                       bid_volume_1 |-> data.BidLot1,
                       ask_volume_1 |-> data.AskLot1,
                       bid_price_2 |-> 0, bid_price_3 |-> 0,
                       bid_price_4 |-> 0, bid_price_5 |-> 0,
                       ask_price_2 |-> 0, ask_price_3 |-> 0,
                       ask_price_4 |-> 0, ask_price_5 |-> 0,
                       bid_volume_2 |-> 0, bid_volume_3 |-> 0,
                       bid_volume_4 |-> 0, bid_volume_5 |-> 0,
                       ask_volume_2 |-> 0, ask_volume_3 |-> 0,
                       ask_volume_4 |-> 0, ask_volume_5 |-> 0]
              deep == IF data.BidLot2 # 0 \/ data.AskLot2 # 0
                      THEN [tick EXCEPT
                              !.bid_price_2 = adjust_price(data.Bid2),
                              !.bid_price_3 = adjust_price(data.Bid3),
                              !.bid_price_4 = adjust_price(data.Bid4),
                              !.bid_price_5 = adjust_price(data.Bid5),
                              !.ask_price_2 = adjust_price(data.Ask2),
                              !.ask_price_3 = adjust_price(data.Ask3),
                              !.ask_price_4 = adjust_price(data.Ask4),
                              !.ask_price_5 = adjust_price(data.Ask5),
                              !.bid_volume_2 = adjust_price(data.BidLot2),
                              !.bid_volume_3 = adjust_price(data.BidLot3),
                              !.bid_volume_4 = adjust_price(data.BidLot4),
                              !.bid_volume_5 = adjust_price(data.BidLot5),
                              !.ask_volume_2 = adjust_price(data.AskLot2),
                              !.ask_volume_3 = adjust_price(data.AskLot3),
                              !.ask_volume_4 = adjust_price(data.AskLot4),
                              !.ask_volume_5 = adjust_price(data.AskLot5)]
                      ELSE tick
          IN  on_tick(w, deep)

----------------------------------------------------------------------------
(* KsgoldGateway: connect and the polling timer *)

CallQuery(w, func) ==
    LET w1 == IF func = "query_account" THEN query_account(w) ELSE query_position(w)
    IN  [w1 EXCEPT !.hist.invoked = Append(@, func)]

init_query(w) ==
    [w EXCEPT !.gw.count = 0,
              !.gw.query_functions = <<"query_account", "query_position">>,
              !.gw.registered = TRUE,
              !.hist.invoked = <<>>,
              !.hist.ticksSince = 0]

process_timer_event_NoReset(w) ==
    LET w1 == [w EXCEPT !.gw.count = @ + 1, !.hist.ticksSince = @ + 1]
    IN  IF w1.gw.count < 2
        THEN w1
        ELSE LET func == Head(w1.gw.query_functions)
                 w3 == [w1 EXCEPT !.gw.query_functions = Tail(@)]
                 w4 == CallQuery(w3, func)
             IN  [w4 EXCEPT !.gw.query_functions = Append(@, func)]

process_timer_event(w) ==
    LET w1 == [w EXCEPT !.gw.count = @ + 1, !.hist.ticksSince = @ + 1]
    IN  IF w1.gw.count < 2
        THEN w1
        ELSE LET w2 == [w1 EXCEPT !.gw.count = 0]
                 func == Head(w2.gw.query_functions)
                 w3 == [w2 EXCEPT !.gw.query_functions = Tail(@)]
                 w4 == CallQuery(w3, func)
             IN  [w4 EXCEPT !.gw.query_functions = Append(@, func)]

gateway_connect(w) ==
    init_query(md_connect(td_connect(w)))

----------------------------------------------------------------------------
(* Initial state: the gateway and both connections as constructed *)

InitWorld ==
    [gw |-> [count |-> 0, query_functions |-> <<>>, registered |-> FALSE],
     md |-> [reqid |-> 0, connect_status |-> FALSE, login_status |-> FALSE,
              subscribed |-> {}],
     td |-> [reqid |-> 0, order_ref |-> 0, connect_status |-> FALSE,
              login_status |-> FALSE, login_failed |-> FALSE,
              frontid |-> 0, sessionid |-> 0,
              order_data |-> <<>>, trade_data |-> <<>>,
              sysid_orderid_map |-> <<>>],
     maps |-> [symbol_exchange_map |-> <<>>, symbol_name_map |-> <<>>,
                symbol_size_map |-> <<>>, symbol_market_map |-> <<>>,
                localid_orderid_map |-> <<>>, orderid_localid_map |-> <<>>],
     out |-> [orders |-> <<>>, trades |-> <<>>, logs |-> <<>>, contracts |-> <<>>,
               positions |-> <<>>, tick |-> <<>>],
     ven |-> [calls |-> <<>>, td_link |-> "none", td_loginPending |-> FALSE,
               qryPending |-> FALSE, inserts |-> {},
               md_link |-> "none", md_loginPending |-> FALSE],
     hist |-> [exc |-> "", hung |-> FALSE, catalogDone |-> FALSE, ret |-> <<>>,
                nConnect |-> 0, nFront |-> 0, nLogin |-> 0, nInstr |-> 0,
                nOrd |-> 0, nTrd |-> 0, nSend |-> 0, nCancel |-> 0, nRspInsert |-> 0,
                nSub |-> 0, nMdFront |-> 0, nMdLogin |-> 0, nTicks |-> 0,
                receivedOrd |-> <<>>, processedOrd |-> <<>>, replayedOrd |-> <<>>,
                receivedTrd |-> <<>>, processedTrd |-> <<>>, replayedTrd |-> <<>>,
                sentOrderNos |-> {}, tdLoginRejected |-> FALSE,
                frontAfterReject |-> FALSE, mdLoginRejected |-> FALSE,
                nTranslatable |-> 0, connectAfterReject |-> FALSE,
                sendArg |-> <<>>, cancelArg |-> <<>>, insertArg |-> <<>>,
                invoked |-> <<>>, ticksSince |-> 0,
                firstEntry |-> <<>>, instrArg |-> <<>>, xlat |-> <<>>,
                handledOrd |-> <<>>, nRspPos |-> 0, nPosDone |-> 0,
                nTickData |-> 0, tickArg |-> <<>>, nRefused |-> 0,
                posArg |-> <<>>]]

\* req is the argument of the send_order call the host thread is in, data
\* the arguments of the handler the trading callback thread is in
IdleThreads == [host |-> "idle", cb |-> "idle", req |-> <<>>, data |-> <<>>]

Init ==
    /\ pc = IdleThreads
    /\ gw = InitWorld.gw
    /\ md = InitWorld.md
    /\ td = InitWorld.td
    /\ maps = InitWorld.maps
    /\ out = InitWorld.out
    /\ ven = InitWorld.ven
    /\ hist = InitWorld.hist

\* the world at the start of a handler: no exception raised yet
Start == [World EXCEPT !.hist.exc = ""]

\* the handler leaves the world w and the threads at p
BecomeAt(w, p) ==
    /\ pc' = p
    /\ gw' = w.gw
    /\ md' = w.md
    /\ td' = w.td
    /\ maps' = w.maps
    /\ out' = w.out
    /\ ven' = w.ven
    /\ hist' = w.hist

\* a handler that runs from its first statement to its last
Become(w) == BecomeAt(w, pc)

----------------------------------------------------------------------------
(* Actions: calls of the host platform.  Each action draws its inputs      *)
(* from the sets it is given; the specifications below fix the sets.       *)

GatewayConnectOf(max) ==
    /\ hist.nConnect < max
    /\ LET w0 == [Start EXCEPT !.hist.nConnect = @ + 1,
                               !.hist.connectAfterReject = @ \/ hist.tdLoginRejected]
           w1 == gateway_connect(w0)
       IN  Become([w1 EXCEPT
                     !.ven.td_link = IF @ = "none" THEN "down" ELSE @,
                     !.ven.md_link = IF @ = "none" THEN "down" ELSE @])

ReqDirections == {"LONG", "NET"}

ReqOffsets == {"OPEN", "NONE"}

SendOrderOf(symbols, directions, offsets) ==
    /\ hist.nSend < MaxSend
    /\ \E symbol \in symbols, direction \in directions, offset \in offsets :
         LET req == [symbol |-> symbol, direction |-> direction, offset |-> offset]
             ok  == IF offset \in {"OPEN", "CLOSE"} THEN 1 ELSE 0
             w0 == [Start EXCEPT !.hist.nSend = @ + 1, !.hist.sendArg = req,
                                 !.hist.nTranslatable = @ + ok]
         IN  Become(send_order(w0, req))

CancelIds == {OrderId(VendorOrder(k).FrontID, VendorOrder(k).SessionID,
                      VendorOrder(k).OrderRef) : k \in SysNos}

CancelOrder ==
    /\ hist.nCancel < MaxCancel
    /\ \E orderid \in CancelIds :
         LET req == [orderid |-> orderid]
             w0 == [Start EXCEPT !.hist.nCancel = @ + 1, !.hist.cancelArg = orderid]
         IN  Become(cancel_order(w0, req))

Subscribe ==
    /\ hist.nSub < MaxSub
    /\ \E symbol \in Symbols :
         LET w0 == [Start EXCEPT !.hist.nSub = @ + 1]
         IN  Become(md_subscribe(w0, [symbol |-> symbol]))

TimerTick ==
    /\ gw.registered
    /\ hist.nTicks < MaxTicks
    /\ Become(process_timer_event([Start EXCEPT !.hist.nTicks = @ + 1]))

----------------------------------------------------------------------------
(* Actions: callbacks of the vendor library on the trading connection.     *)
(* The callback thread delivers one callback at a time; it delivers        *)
(* nothing more once a handler does not return (hist.hung).                *)

ErrorCodes == {9999}

TdFrontConnected ==
    /\ ~hist.hung
    /\ td.connect_status
    /\ ven.td_link = "down"
    /\ hist.nFront < MaxLogins
    /\ LET w0 == [Start EXCEPT !.hist.nFront = @ + 1,
                               !.hist.frontAfterReject = hist.tdLoginRejected,
                               !.ven.td_link = "up"]
       IN  Become(td_onFrontConnected(w0))

\* requests in flight are lost with the connection
TdFrontDisconnected ==
    /\ ~hist.hung
    /\ ven.td_link = "up"
    /\ LET w0 == [Start EXCEPT !.ven.td_link = "down",
                               !.ven.td_loginPending = FALSE,
                               !.ven.qryPending = FALSE,
                               !.ven.inserts = {}]
       IN  Become(td_onFrontDisconnected(w0))

TdRspUserLoginOf(codes, sids, retries) ==
    /\ ~hist.hung
    /\ ven.td_loginPending
    /\ hist.nLogin < MaxLogins
    /\ \E code \in codes, sid \in sids, nfail \in retries :
         LET data  == [FrontID |-> 1, SessionID |-> sid]
             error == [ErrorID |-> code]
             w0 == [Start EXCEPT !.hist.nLogin = @ + 1,
                                 !.hist.tdLoginRejected = @ \/ code # 0,
                                 !.ven.td_loginPending = FALSE]
         IN  Become(td_onRspUserLogin(w0, data, error, nfail))

TdRspQryInstrumentOf(symbols, lasts) ==
    /\ ~hist.hung
    /\ ven.qryPending
    /\ hist.nInstr < MaxInstr
    /\ \E symbol \in symbols, name \in Names, last \in lasts :
         LET w0 == [Start EXCEPT !.hist.nInstr = @ + 1,
                                 !.ven.qryPending = ~last]
         IN  Become(onRspQryInstrument(w0, InstrumentPayload(symbol, name), last))

\* an instrument response whose name, size and market are drawn from the
\* given sets; hist.firstEntry keeps the payload that created each entry
TdRspQryInstrumentWith(symbols, names, units, markets, lasts) ==
    /\ ~hist.hung
    /\ ven.qryPending
    /\ hist.nInstr < MaxInstr
    /\ \E symbol \in symbols, name \in names, unit \in units,
          market \in markets, last \in lasts :
         LET data == InstrumentData(symbol, name, unit, market)
             w0 == [Start EXCEPT
                      !.hist.nInstr = @ + 1,
                      !.hist.instrArg = data,
                      !.hist.firstEntry =
                          IF symbol \in DOMAIN maps.symbol_exchange_map THEN @
                          ELSE Put(@, symbol, data),
                      !.ven.qryPending = ~last]
         IN  Become(onRspQryInstrument(w0, data, last))

TdRtnOrderOf(sysnos, flags, max) ==
    /\ ~hist.hung
    /\ ven.td_link = "up"
    /\ td.login_status
    /\ hist.nOrd < max
    /\ \E k \in sysnos, l \in LocalNos, o \in flags :
         LET data == OrderPayload(hist.nOrd + 1, k, l, o)
             w0 == [Start EXCEPT !.hist.nOrd = @ + 1,
                                 !.hist.receivedOrd = Append(@, data),
                                 !.hist.sentOrderNos = @ \cup {k}]
         IN  Become(onRtnOrder(w0, data))

\* an order report whose vendor local order number is drawn from localnos
TdRtnOrderWith(sysnos, localnos, flags, max) ==
    /\ ~hist.hung
    /\ ven.td_link = "up"
    /\ td.login_status
    /\ hist.nOrd < max
    /\ \E k \in sysnos, l \in localnos, o \in flags :
         LET data == OrderPayload(hist.nOrd + 1, k, l, o)
             w0 == [Start EXCEPT !.hist.nOrd = @ + 1,
                                 !.hist.receivedOrd = Append(@, data),
                                 !.hist.sentOrderNos = @ \cup {k}]
         IN  Become(onRtnOrder(w0, data))

\* the vendor reports a trade of an order after it has reported the order
TdRtnTrade ==
    /\ ~hist.hung
    /\ ven.td_link = "up"
    /\ td.login_status
    /\ hist.nTrd < MaxTrades
    /\ \E k \in hist.sentOrderNos, o \in TradeOffsetFlags :
         LET data == TradePayload(hist.nTrd + 1, k, o)
             known == \E i \in DOMAIN hist.processedOrd :
                          hist.processedOrd[i].OrderNo = k
             w0 == [Start EXCEPT !.hist.nTrd = @ + 1,
                                 !.hist.receivedTrd =
                                     Append(@, [data |-> data, resolved |-> known])]
         IN  Become(onRtnTrade(w0, data))

TdRspOrderInsert ==
    /\ ~hist.hung
    /\ ven.td_link = "up"
    /\ \E p \in ven.inserts, code \in ErrorCodes :
         LET w0 == [Start EXCEPT !.hist.nRspInsert = @ + 1,
                                 !.hist.insertArg = p,
                                 !.ven.inserts = @ \ {p}]
         IN  Become(onRspOrderInsert(w0, p.req, [ErrorID |-> code]))

PositionErrorCodes == {0, 10001} \cup ErrorCodes

PositionVolumes == {0, 2}

\* the vendor answers a position query it has received with one response
\* per position, the last of them flagged
TdRspQryInvestorPosition ==
    /\ ~hist.hung
    /\ ven.td_link = "up"
    /\ hist.nRspPos < MaxPosRsp
    /\ hist.nPosDone < Cardinality({i \in DOMAIN ven.calls :
                                       ven.calls[i].fn = "reqQryInvestorPosition"})
    /\ \E code \in PositionErrorCodes, symbol \in Symbols,
          lv \in PositionVolumes, sv \in PositionVolumes, last \in BOOLEAN :
         LET data  == [InstID |-> symbol, LongPosiVol |-> lv, ShortPosiVol |-> sv]
             error == [ErrorID |-> code]
             w0 == [Start EXCEPT !.hist.nRspPos = @ + 1,
                                 !.hist.nPosDone = IF last THEN @ + 1 ELSE @,
                                 !.hist.posArg = [data |-> data, error |-> error]]
         IN  Become(onRspQryInvestorPosition(w0, data, error))

----------------------------------------------------------------------------
(* Actions: callbacks of the vendor library on the market-data connection *)

MdFrontConnected ==
    /\ md.connect_status
    /\ ven.md_link = "down"
    /\ hist.nMdFront < MaxMdLogin
    /\ LET w0 == [Start EXCEPT !.hist.nMdFront = @ + 1, !.ven.md_link = "up"]
       IN  Become(md_onFrontConnected(w0))

MdFrontDisconnected ==
    /\ ven.md_link = "up"
    /\ LET w0 == [Start EXCEPT !.ven.md_link = "down",
                               !.ven.md_loginPending = FALSE]
       IN  Become(md_onFrontDisconnected(w0))

MdRspUserLogin ==
    /\ ven.md_loginPending
    /\ ven.md_link = "up"
    /\ hist.nMdLogin < MaxMdLogin
    /\ \E code \in {0} \cup ErrorCodes :
         LET w0 == [Start EXCEPT !.hist.nMdLogin = @ + 1,
                                 !.hist.mdLoginRejected = @ \/ code # 0,
                                 !.ven.md_loginPending = FALSE]
         IN  Become(md_onRspUserLogin(w0, [ErrorID |-> code]))

\* the price fields of a tick payload and the tick field each one feeds
TickFieldOf ==
    [Last |-> "last_price", highLimit |-> "limit_up", lowLimit |-> "limit_down",
     Open |-> "open_price", Highest |-> "high_price", Low |-> "low_price",
     PreClose |-> "pre_close",
     Bid1 |-> "bid_price_1", Bid2 |-> "bid_price_2", Bid3 |-> "bid_price_3",
     Bid4 |-> "bid_price_4", Bid5 |-> "bid_price_5",
     Ask1 |-> "ask_price_1", Ask2 |-> "ask_price_2", Ask3 |-> "ask_price_3",
     Ask4 |-> "ask_price_4", Ask5 |-> "ask_price_5"]

PriceFields == DOMAIN TickFieldOf

\* an ordinary price for each field, all different
OrdinaryPrice ==
    [Last |-> 101, highLimit |-> 102, lowLimit |-> 103,
     Open |-> 104, Highest |-> 105, Low |-> 106, PreClose |-> 107,
     Bid1 |-> 111, Bid2 |-> 112, Bid3 |-> 113, Bid4 |-> 114, Bid5 |-> 115,
     Ask1 |-> 121, Ask2 |-> 122, Ask3 |-> 123, Ask4 |-> 124, Ask5 |-> 125]

Level2Lots == {<<0, 0>>, <<3, 0>>, <<0, 3>>}

\* the sentinel in no price field or in one of them
SentinelSets == {{}} \cup {{f} : f \in PriceFields}

\* payload of onRtnDepthMarketData: the fields in sentinels hold MAX_FLOAT
TickPayload(symbol, sentinels, lots) ==
    [f \in PriceFields |-> IF f \in sentinels THEN MAX_FLOAT ELSE OrdinaryPrice[f]]
    @@ [InstID |-> symbol, Volume |-> 7, OpenInt |-> 8,
        BidLot1 |-> 1, AskLot1 |-> 1,
        BidLot2 |-> lots[1], AskLot2 |-> lots[2],
        BidLot3 |-> 0, BidLot4 |-> 0, BidLot5 |-> 0,
        AskLot3 |-> 0, AskLot4 |-> 0, AskLot5 |-> 0]

\* the vendor pushes a tick of a subscribed symbol; the handler runs on the
\* thread of the market-data connection
MdRtnDepthMarketDataWith(sentinelSets, lotPairs) ==
    /\ ven.md_link = "up"
    /\ md.login_status
    /\ hist.nTickData < MaxTickData
    /\ \E symbol \in md.subscribed, lots \in lotPairs,
          sentinels \in sentinelSets :
         LET data == TickPayload(symbol, sentinels, lots)
             w0 == [Start EXCEPT !.hist.nTickData = @ + 1, !.hist.tickArg = data]
         IN  Become(onRtnDepthMarketData(w0, data))

MdRtnDepthMarketData == MdRtnDepthMarketDataWith(SentinelSets, Level2Lots)

----------------------------------------------------------------------------
(* Specification of the catalog load: trading login, instrument responses, *)
(* order and trade reports                                                 *)

Connect == GatewayConnectOf(MaxBoot)

TdRspUserLogin == TdRspUserLoginOf({0} \cup ErrorCodes, {1}, {0})

TdRspQryInstrument == TdRspQryInstrumentOf(Symbols, BOOLEAN)

TdRtnOrder == TdRtnOrderOf(SysNos, OrderOffsetFlags, MaxOrders)

Next ==
    \/ Connect
    \/ TdFrontConnected
    \/ TdFrontDisconnected
    \/ TdRspUserLogin
    \/ TdRspQryInstrument
    \/ TdRtnOrder
    \/ TdRtnTrade

Spec == Init /\ [][Next]_vars

----------------------------------------------------------------------------
(* Specification of order submission: send_order and the order-insert     *)
(* response, across logins                                                 *)

Reconnect == GatewayConnectOf(MaxInit)

ReqRspUserLogin == TdRspUserLoginOf({0} \cup ErrorCodes, SessionIDs, {0})

ReqRspQryInstrument == TdRspQryInstrumentOf({"A"}, {TRUE})

ReqRtnOrder == TdRtnOrderOf({1}, {KS_P_OPEN}, MaxReqOrders)

SendOrder == SendOrderOf(Symbols, ReqDirections, ReqOffsets)

NextReq ==
    \/ Connect
    \/ TdFrontConnected
    \/ TdFrontDisconnected
    \/ ReqRspUserLogin
    \/ ReqRspQryInstrument
    \/ SendOrder
    \/ TdRspOrderInsert

SpecReq == Init /\ [][NextReq]_vars

----------------------------------------------------------------------------
(* Specification of the trading session: connect calls, connection and     *)
(* login callbacks, order reports and cancel_order                         *)

NextSession ==
    \/ Reconnect
    \/ TdFrontConnected
    \/ TdFrontDisconnected
    \/ ReqRspUserLogin
    \/ ReqRspQryInstrument
    \/ ReqRtnOrder
    \/ CancelOrder

SpecSession == Init /\ [][NextSession]_vars

----------------------------------------------------------------------------
(* Specification of the market-data connection *)

NextMd ==
    \/ Reconnect
    \/ Subscribe
    \/ MdFrontConnected
    \/ MdFrontDisconnected
    \/ MdRspUserLogin

SpecMd == Init /\ [][NextMd]_vars

----------------------------------------------------------------------------
(* Specification of the polling timer *)

TimerRspUserLogin == TdRspUserLoginOf({0}, {1}, 0..MaxRetry)

NextTimer ==
    \/ Reconnect
    \/ TimerTick
    \/ TdFrontConnected
    \/ TimerRspUserLogin
    \/ ReqRspQryInstrument

SpecTimer == Init /\ [][NextTimer]_vars

----------------------------------------------------------------------------
(* Specification of the reference data: the catalog is loaded again after  *)
(* each login, and a response may carry other values than the one before   *)

RefNames == {"n1", "n2"}

RefUnits == {1, 10}

RefMarkets == {"m"}

RefRspQryInstrument ==
    TdRspQryInstrumentWith(Symbols, RefNames, RefUnits, RefMarkets, BOOLEAN)

NextRef ==
    \/ Connect
    \/ TdFrontConnected
    \/ TdFrontDisconnected
    \/ TdRspUserLogin
    \/ RefRspQryInstrument

SpecRef == Init /\ [][NextRef]_vars

----------------------------------------------------------------------------
(* Specification of the offset tables: the two lookups the handlers make,  *)
(* applied to every code and every normalized offset                       *)

VendorOffsetCodes == {KS_P_OPEN, KS_P_OFFSET, Code48, CodeOther}

NormalizedOffsets == {"OPEN", "CLOSE", "NONE"}

\* OFFSET_KSGOLD2VT[data["OffsetFlag"]]
OffsetOfCode(code) ==
    IF code \in DOMAIN OFFSET_KSGOLD2VT THEN OFFSET_KSGOLD2VT[code] ELSE "KeyError"

\* OFFSET_VT2KSGOLD[req.offset], behind the "not in" test of send_order
CodeOfOffset(offset) ==
    IF offset \in DOMAIN OFFSET_VT2KSGOLD THEN OFFSET_VT2KSGOLD[offset] ELSE ""

TranslateCode ==
    /\ Len(hist.xlat) < MaxXlat
    /\ \E code \in VendorOffsetCodes :
         Become([Start EXCEPT !.hist.xlat =
                    Append(@, [dir |-> "in", arg |-> code,
                               result |-> OffsetOfCode(code)])])

TranslateOffset ==
    /\ Len(hist.xlat) < MaxXlat
    /\ \E offset \in NormalizedOffsets :
         Become([Start EXCEPT !.hist.xlat =
                    Append(@, [dir |-> "out", arg |-> offset,
                               result |-> CodeOfOffset(offset)])])

NextOffset ==
    \/ TranslateCode
    \/ TranslateOffset

SpecOffset == Init /\ [][NextOffset]_vars

----------------------------------------------------------------------------
(* Specification of cancellation: order reports that carry one of two      *)
(* vendor local order numbers, trades, logins, and cancel_order            *)

CancelLocalNos == {11, 12}

CancelRtnOrder == TdRtnOrderWith({1}, CancelLocalNos, OrderOffsetFlags, MaxOrders)

NextCancel ==
    \/ Connect
    \/ TdFrontConnected
    \/ TdFrontDisconnected
    \/ TdRspUserLogin
    \/ ReqRspQryInstrument
    \/ CancelRtnOrder
    \/ TdRtnTrade
    \/ CancelOrder

SpecCancel == Init /\ [][NextCancel]_vars

----------------------------------------------------------------------------
(* Specification of the position query: the timer issues the queries and   *)
(* the vendor answers them                                                 *)

NextPosition ==
    \/ Connect
    \/ TimerTick
    \/ TdFrontConnected
    \/ TimerRspUserLogin
    \/ ReqRspQryInstrument
    \/ TdRspQryInvestorPosition

SpecPosition == Init /\ [][NextPosition]_vars

----------------------------------------------------------------------------
(* Specification of the tick conversion.  It starts from the state the    *)
(* handlers leave after connect, both logins, the catalog response for     *)
(* symbol A and the subscription of both symbols; the vendor pushes ticks. *)

SubscribedWorld ==
    LET ok == [ErrorID |-> 0]
        w1 == gateway_connect(InitWorld)
        w2 == td_onFrontConnected([w1 EXCEPT !.ven.td_link = "up"])
        w3 == td_onRspUserLogin([w2 EXCEPT !.ven.td_loginPending = FALSE],
                                [FrontID |-> 1, SessionID |-> 1], ok, 0)
        w4 == onRspQryInstrument([w3 EXCEPT !.ven.qryPending = FALSE],
                                 InstrumentPayload("A", "n1"), TRUE)
        w5 == md_onFrontConnected([w4 EXCEPT !.ven.md_link = "up"])
        w6 == md_onRspUserLogin([w5 EXCEPT !.ven.md_loginPending = FALSE], ok)
    IN  md_subscribe(md_subscribe(w6, [symbol |-> "A"]), [symbol |-> "B"])

InitTick ==
    /\ pc = IdleThreads
    /\ gw = SubscribedWorld.gw
    /\ md = SubscribedWorld.md
    /\ td = SubscribedWorld.td
    /\ maps = SubscribedWorld.maps
    /\ out = SubscribedWorld.out
    /\ ven = SubscribedWorld.ven
    /\ hist = SubscribedWorld.hist

NextTick == MdRtnDepthMarketData

SpecTick == InitTick /\ [][NextTick]_vars

----------------------------------------------------------------------------
(* Specification of the reference cache under two threads.  It starts from *)
(* the state after connect, both logins and the subscription of both       *)
(* symbols, with the catalog query accepted and not yet answered.  The     *)
(* trading callback thread runs onRspQryInstrument one cache write at a    *)
(* time; the market-data thread runs the tick handler in between.          *)

LoadingWorld ==
    LET ok == [ErrorID |-> 0]
        w1 == gateway_connect(InitWorld)
        w2 == td_onFrontConnected([w1 EXCEPT !.ven.td_link = "up"])
        w3 == td_onRspUserLogin([w2 EXCEPT !.ven.td_loginPending = FALSE],
                                [FrontID |-> 1, SessionID |-> 1], ok, 0)
        w5 == md_onFrontConnected([w3 EXCEPT !.ven.md_link = "up"])
        w6 == md_onRspUserLogin([w5 EXCEPT !.ven.md_loginPending = FALSE], ok)
    IN  md_subscribe(md_subscribe(w6, [symbol |-> "A"]), [symbol |-> "B"])

InitCache ==
    /\ pc = IdleThreads
    /\ gw = LoadingWorld.gw
    /\ md = LoadingWorld.md
    /\ td = LoadingWorld.td
    /\ maps = LoadingWorld.maps
    /\ out = LoadingWorld.out
    /\ ven = LoadingWorld.ven
    /\ hist = LoadingWorld.hist

\* onRspQryInstrument up to the write of symbol_exchange_map
CacheInstrumentBegin ==
    /\ pc.cb = "idle"
    /\ ~hist.hung
    /\ ven.qryPending
    /\ hist.nInstr < MaxInstr
    /\ \E symbol \in Symbols, name \in Names, last \in BOOLEAN :
         LET data == InstrumentPayload(symbol, name)
             w0 == [Start EXCEPT !.hist.nInstr = @ + 1,
                                 !.ven.qryPending = ~last]
         IN  BecomeAt(InstrumentWriteExchange(w0, data),
                      [pc EXCEPT !.cb = "name",
                                 !.data = [data |-> data, last |-> last]])

CacheInstrumentName ==
    /\ pc.cb = "name"
    /\ BecomeAt(InstrumentWriteName(World, pc.data.data), [pc EXCEPT !.cb = "size"])

CacheInstrumentSize ==
    /\ pc.cb = "size"
    /\ BecomeAt(InstrumentWriteSize(World, pc.data.data), [pc EXCEPT !.cb = "market"])

\* the write of symbol_market_map and the rest of the handler
CacheInstrumentEnd ==
    /\ pc.cb = "market"
    /\ BecomeAt(InstrumentFinish(InstrumentWriteMarket(World, pc.data.data),
                                 pc.data.last),
                [pc EXCEPT !.cb = "idle", !.data = <<>>])

CacheTick == MdRtnDepthMarketDataWith({{}}, {<<0, 0>>})

NextCache ==
    \/ CacheInstrumentBegin
    \/ CacheInstrumentName
    \/ CacheInstrumentSize
    \/ CacheInstrumentEnd
    \/ CacheTick

SpecCache == InitCache /\ [][NextCache]_vars

----------------------------------------------------------------------------
(* Specification of the catalog query loop.  The login handler is taken    *)
(* one loop pass at a time: the callback thread stays in the loop          *)
(* (pc.cb = "qry") until the vendor accepts a call, and delivers no other  *)
(* callback meanwhile; the timer of the host keeps running.  The vendor    *)
(* refuses at most MaxRetry calls of one login, and the thread in the      *)
(* loop goes on after each sleep(1) (weak fairness of the loop pass).      *)

LoopRspUserLogin ==
    /\ pc.cb = "idle"
    /\ ven.td_loginPending
    /\ hist.nLogin < MaxLogins
    /\ \E code \in {0} \cup ErrorCodes :
         LET data  == [FrontID |-> 1, SessionID |-> 1]
             error == [ErrorID |-> code]
             w0 == [Start EXCEPT !.hist.nLogin = @ + 1,
                                 !.hist.nRefused = 0,
                                 !.hist.tdLoginRejected = @ \/ code # 0,
                                 !.ven.td_loginPending = FALSE]
         IN  IF code = 0
             THEN BecomeAt(LoginAccepted(w0, data), [pc EXCEPT !.cb = "qry"])
             ELSE Become(td_onRspUserLogin(w0, data, error, 0))

LoopQryAttempt ==
    /\ pc.cb = "qry"
    /\ \E n \in {0, 1} :
         /\ n # 0 => hist.nRefused < MaxRetry
         /\ LET w0 == [Start EXCEPT !.hist.nRefused = IF n # 0 THEN @ + 1 ELSE @]
            IN  BecomeAt(QryInstrumentAttempt(w0, n),
                         [pc EXCEPT !.cb = IF n = 0 THEN "idle" ELSE "qry"])

LoopFrontConnected == pc.cb = "idle" /\ TdFrontConnected

LoopFrontDisconnected == pc.cb = "idle" /\ TdFrontDisconnected

LoopRspQryInstrument == pc.cb = "idle" /\ ReqRspQryInstrument

NextLoop ==
    \/ Connect
    \/ TimerTick
    \/ LoopFrontConnected
    \/ LoopFrontDisconnected
    \/ LoopRspUserLogin
    \/ LoopQryAttempt
    \/ LoopRspQryInstrument

SpecLoop == Init /\ [][NextLoop]_vars /\ WF_vars(LoopQryAttempt)

----------------------------------------------------------------------------
(* Specification of send_order against the callback thread.  The host      *)
(* thread runs send_order up to the return of reqOrderInsert, and then     *)
(* the rest; the callback thread can deliver the vendor's answer to the    *)
(* request in between.                                                     *)

RaceDirections == {"LONG", "SHORT"}

RaceOffsets == {"OPEN", "NONE"}

\* send_order from its first statement up to the return of reqOrderInsert,
\* or to its return when it ends before that call
SendOrderBegin ==
    /\ pc.host = "idle"
    /\ hist.nSend < MaxSend
    /\ \E direction \in RaceDirections, offset \in RaceOffsets :
         LET req == [symbol |-> "A", direction |-> direction, offset |-> offset]
             ok  == IF offset \in {"OPEN", "CLOSE"} THEN 1 ELSE 0
             w0 == [Start EXCEPT !.hist.nSend = @ + 1, !.hist.sendArg = req,
                                 !.hist.nTranslatable = @ + ok]
             w1 == [w0 EXCEPT !.td.order_ref = @ + 1]
         IN  IF \/ req.offset \notin DOMAIN OFFSET_VT2KSGOLD
                \/ req.symbol \notin DOMAIN w0.maps.symbol_market_map
             THEN Become(send_order(w0, req))
             ELSE BecomeAt(SubmitOrderCall(w1, req),
                           [pc EXCEPT !.host = "emit", !.req = req])

\* send_order from the return of reqOrderInsert to its own return
SendOrderEnd ==
    /\ pc.host = "emit"
    /\ BecomeAt(SubmitOrderEmit(Start, pc.req),
                [pc EXCEPT !.host = "idle", !.req = <<>>])

\* the order report of an order the vendor has received through
\* reqOrderInsert
InsertedOrderPayload(n, p, k, l) ==
    [seq |-> n, InstID |-> p.req.InstID,
     FrontID |-> p.assigned[1], SessionID |-> p.req.SessionID,
     OrderRef |-> p.req.OrderRef, LocalOrderNo |-> l, OrderNo |-> k,
     BuyOrSell |-> p.req.BuyOrSell, OffsetFlag |-> p.req.OffsetFlag,
     Status |-> "KS_Entrust_In"]

RaceRtnOrder ==
    /\ ~hist.hung
    /\ ven.td_link = "up"
    /\ td.login_status
    /\ hist.nOrd < MaxOrders
    /\ \E p \in ven.inserts, l \in LocalNos :
         LET data == InsertedOrderPayload(hist.nOrd + 1, p, p.req.OrderRef, l)
             w0 == [Start EXCEPT !.hist.nOrd = @ + 1,
                                 !.hist.receivedOrd = Append(@, data),
                                 !.hist.sentOrderNos = @ \cup {data.OrderNo}]
         IN  Become(onRtnOrder(w0, data))

NextRace ==
    \/ Connect
    \/ TdFrontConnected
    \/ TdRspUserLogin
    \/ ReqRspQryInstrument
    \/ SendOrderBegin
    \/ SendOrderEnd
    \/ RaceRtnOrder
    \/ TdRspOrderInsert

SpecRace == Init /\ [][NextRace]_vars

----------------------------------------------------------------------------
(* Properties of the catalog load (Spec) *)

Seqs(records) == [i \in DOMAIN records |-> records[i].seq]

Increasing(numbers) ==
    \A i, j \in DOMAIN numbers : i < j => numbers[i] < numbers[j]

\* the codes of an order report are keys of the translation tables
TranslatableOrder(data) ==
    /\ data.BuyOrSell \in DOMAIN DIRECTION_KSGOLD2VT
    /\ data.OffsetFlag \in DOMAIN OFFSET_KSGOLD2VT
    /\ data.Status \in DOMAIN STATUS_KSGOLD2VT

\* the codes of a trade report are keys of the translation tables
TranslatableTrade(data) ==
    /\ data.BuyOrSell \in DOMAIN DIRECTION_KSGOLD2VT
    /\ data.OffSetFlag \in DOMAIN OFFSET_KSGOLD2VT

\* C1: once the terminal catalog response has been handled and the order
\* buffer is empty, the order reports emitted as order events are the
\* received (translatable) order reports in their arrival order: none is
\* lost, duplicated or reordered.
C1_ProcessedInArrivalOrder ==
    (hist.catalogDone /\ td.order_data = <<>>)
        => Seqs(hist.processedOrd)
             = Seqs(SelectSeq(hist.receivedOrd, TranslatableOrder))

\* a step in which a terminal catalog response (last = true) is handled
\* and the handler comes back
TerminalResponseStep ==
    /\ hist'.nInstr = hist.nInstr + 1
    /\ ven.qryPending /\ ~ven'.qryPending
    /\ ~hist'.hung

\* C2: every buffered order or trade payload is handed to its handler for
\* replay exactly once over the whole run and in receive order, and the
\* buffers are empty when the handler of a terminal catalog response is
\* over, also when that response comes more than once and when a handler
\* fails on a buffered payload.
C2_ReplayedOnceBufferCleared ==
    [][ /\ Increasing(hist'.replayedOrd)
        /\ Increasing(hist'.replayedTrd)
        /\ TerminalResponseStep
             => (td'.order_data = <<>> /\ td'.trade_data = <<>>) ]_vars

\* C3: a trade report that arrives after an order report with its system
\* order number was processed is emitted (when its codes translate), and
\* every emitted trade event, replayed ones included, carries the order id
\* of a processed order report with the same system order number.
C3_TradeResolvesToOrderId ==
    /\ \A i \in DOMAIN hist.processedTrd :
         \E j \in DOMAIN hist.processedOrd :
            /\ hist.processedOrd[j].OrderNo = hist.processedTrd[i].OrderNo
            /\ hist.processedOrd[j].orderid = hist.processedTrd[i].orderid
    /\ \A i \in DOMAIN hist.receivedTrd :
         (hist.receivedTrd[i].resolved /\ TranslatableTrade(hist.receivedTrd[i].data))
            => \E j \in DOMAIN hist.processedTrd :
                  hist.processedTrd[j].seq = hist.receivedTrd[i].data.seq

\* C3 witness: an order report and a trade report of the same order were
\* both buffered, both replayed, and the trade event was emitted.
C3_Witness ==
    \E i \in DOMAIN hist.processedTrd, j \in DOMAIN hist.processedOrd :
       /\ hist.processedOrd[j].OrderNo = hist.processedTrd[i].OrderNo
       /\ \E a \in DOMAIN hist.replayedOrd : hist.replayedOrd[a] = hist.processedOrd[j].seq
       /\ \E b \in DOMAIN hist.replayedTrd : hist.replayedTrd[b] = hist.processedTrd[i].seq

\* C4: a received trade report (with translatable codes) is never dropped:
\* its handling does not fail and it is either emitted as a trade event or
\* kept in the trade buffer until its order report has been processed.
C4_TradeDeferredNotDropped ==
    \A i \in DOMAIN hist.receivedTrd :
       TranslatableTrade(hist.receivedTrd[i].data)
          => \/ \E j \in DOMAIN hist.processedTrd :
                   hist.processedTrd[j].seq = hist.receivedTrd[i].data.seq
             \/ \E j \in DOMAIN td.trade_data :
                   td.trade_data[j].seq = hist.receivedTrd[i].data.seq

\* C16: for every symbol the reports are processed in delivery order: no
\* order (trade) report of a symbol has been processed while an order
\* (trade) report of the same symbol that arrived before it is still in the
\* buffer.
C16_NoOvertakingPerSymbol ==
    /\ \A i \in DOMAIN hist.processedOrd, j \in DOMAIN td.order_data :
          VendorOrder(hist.processedOrd[i].OrderNo).InstID = td.order_data[j].InstID
              => hist.processedOrd[i].seq < td.order_data[j].seq
    /\ \A i \in DOMAIN hist.processedTrd, j \in DOMAIN td.trade_data :
          VendorOrder(hist.processedTrd[i].OrderNo).InstID = td.trade_data[j].InstID
              => hist.processedTrd[i].seq < td.trade_data[j].seq

\* C17: once the terminal catalog response of the current login has been
\* handled and its replay is over (state LOADED), no order or trade report
\* is in a buffer: every report that arrives is processed at once.
C17_NoBufferingWhenLoaded ==
    (hist.catalogDone /\ td.login_status /\ ~ven.qryPending)
        => (td.order_data = <<>> /\ td.trade_data = <<>>)

\* C18: the replay started by a terminal catalog response ends, whatever
\* the buffers hold: when no handler raises, the response handler returns
\* and leaves both buffers empty.
C18_ReplayTerminates ==
    [][ (hist'.nInstr = hist.nInstr + 1 /\ ven.qryPending /\ ~ven'.qryPending
           /\ hist'.exc = "")
          => (~hist'.hung /\ td'.order_data = <<>> /\ td'.trade_data = <<>>) ]_vars

----------------------------------------------------------------------------
(* Properties of the market-data connection (SpecMd) *)

\* number of vendor calls of function fn on connection api with argument arg
CallsOf(calls, api, fn, arg) ==
    Cardinality({i \in DOMAIN calls :
                   calls[i].api = api /\ calls[i].fn = fn /\ calls[i].arg = arg})

\* number of vendor calls of function fn on connection api
CallsTo(calls, api, fn) ==
    Cardinality({i \in DOMAIN calls : calls[i].api = api /\ calls[i].fn = fn})

\* C5: subscribe() before the market-data login has completed makes no
\* vendor call, and the successful login response issues exactly one
\* subscribeMarketData call for every symbol requested so far, however
\* often it was requested.
C5_SubscribeReplayedOnce ==
    [][ /\ (hist'.nSub = hist.nSub + 1 /\ ~md.login_status)
             => ven'.calls = ven.calls
        /\ (hist'.nMdLogin = hist.nMdLogin + 1 /\ md'.login_status)
             => \A s \in Symbols :
                   CallsOf(ven'.calls, "md", "subscribeMarketData", s)
                     = CallsOf(ven.calls, "md", "subscribeMarketData", s)
                         + (IF s \in md.subscribed THEN 1 ELSE 0) ]_vars

\* C5 witness: one symbol was requested twice before the login, the login
\* succeeded and the vendor got one subscribe call for it.
C5_Witness ==
    /\ hist.nSub = 2
    /\ Cardinality(md.subscribed) = 1
    /\ md.login_status
    /\ hist.nMdLogin = 1
    /\ CallsTo(ven.calls, "md", "subscribeMarketData") = 1

----------------------------------------------------------------------------
(* Properties of order submission (SpecReq) *)

Last(q) == q[Len(q)]

\* C6: an order-insert response with a nonzero error code produces exactly
\* one order event, with status REJECTED and the order id send_order
\* assigned to the order, and exactly one log entry with the error code.
C6_RejectedInsertReported ==
    [][ (hist'.nRspInsert = hist.nRspInsert + 1)
          => /\ Len(out'.orders) = Len(out.orders) + 1
             /\ Last(out'.orders).status = "REJECTED"
             /\ Last(out'.orders).orderid = hist'.insertArg.assigned
             /\ Len(out'.logs) = Len(out.logs) + 1
             /\ Last(out'.logs).code \in ErrorCodes ]_vars

\* C8: send_order with an offset outside the normalized-to-vendor table
\* makes no vendor call, emits no order event, returns the empty id and
\* leaves order_ref and reqid alone; order_ref counts the submissions whose
\* offset translates.
C8_UntranslatableOffsetRejected ==
    [][ /\ (hist'.nSend = hist.nSend + 1
              /\ hist'.sendArg.offset \notin DOMAIN OFFSET_VT2KSGOLD)
             => /\ ven'.calls = ven.calls
                /\ out'.orders = out.orders
                /\ hist'.ret = <<>>
                /\ td'.order_ref = td.order_ref
                /\ td'.reqid = td.reqid
        /\ td'.order_ref = hist'.nTranslatable ]_vars

\* C8 witness: a submission without a translatable offset was rejected and
\* the next, accepted one got order reference 1.
C8_Witness ==
    /\ hist.nSend = 2
    /\ hist.nTranslatable = 1
    /\ hist.ret # <<>>
    /\ td.order_ref = 1
    /\ CallsTo(ven.calls, "td", "reqOrderInsert") = 1
    /\ Last(ven.calls).arg.OrderRef = 1

----------------------------------------------------------------------------
(* Properties of the trading session (SpecSession) *)

\* C7: cancel_order for an order id without an entry in orderid_localid_map
\* makes no vendor call and leaves reqid and every mapping table unchanged.
C7_UnknownCancelNoVendorCall ==
    [][ (hist'.nCancel = hist.nCancel + 1
           /\ hist'.cancelArg \notin DOMAIN maps.orderid_localid_map)
          => /\ ven'.calls = ven.calls
             /\ td'.reqid = td.reqid
             /\ maps' = maps
             /\ td'.sysid_orderid_map = td.sysid_orderid_map ]_vars

\* C7 witness: cancel_order was called for an id the table does not hold,
\* while the table holds another id.
C7_Witness ==
    /\ hist.nCancel = 1
    /\ hist.exc = "KeyError"
    /\ hist.cancelArg \notin DOMAIN maps.orderid_localid_map
    /\ DOMAIN maps.orderid_localid_map # {}

\* C9: once a trading login response with a nonzero error code has been
\* received, no step issues another reqUserLogin on the trading connection.
C9_NoLoginAfterRejection ==
    [][ hist.tdLoginRejected
          => CallsTo(ven'.calls, "td", "reqUserLogin")
               = CallsTo(ven.calls, "td", "reqUserLogin") ]_vars

\* C9 witness: after the rejected login the front connected again and the
\* host called connect() again.
C9_Witness ==
    /\ hist.tdLoginRejected
    /\ hist.frontAfterReject
    /\ hist.connectAfterReject
    /\ td.login_failed

----------------------------------------------------------------------------
(* Properties of the polling timer (SpecTimer) *)

\* C10: after init_query the counter is 0 or 1, the rotation holds the
\* account query and the position query once each, a query function is
\* invoked on every second tick and on no other, one at a time, and the
\* invoked functions alternate, starting with the account query.
C10_PollingAlternates ==
    gw.registered =>
        /\ gw.count \in {0, 1}
        /\ gw.count = hist.ticksSince % 2
        /\ gw.query_functions \in {<<"query_account", "query_position">>,
                                   <<"query_position", "query_account">>}
        /\ Len(hist.invoked) = hist.ticksSince \div 2
        /\ \A i \in DOMAIN hist.invoked :
              hist.invoked[i] = IF i % 2 = 1 THEN "query_account"
                                ELSE "query_position"

\* C10 witness: six ticks after init_query the account query, the position
\* query and the account query again have been invoked.
C10_Witness ==
    /\ gw.registered
    /\ hist.ticksSince >= 6
    /\ hist.invoked = <<"query_account", "query_position", "query_account">>

----------------------------------------------------------------------------
(* Properties of the reference data (SpecRef) *)

\* the reference entry of a symbol in the cache dicts m
Entry(m, s) ==
    [exchange |-> m.symbol_exchange_map[s], name |-> m.symbol_name_map[s],
     size |-> m.symbol_size_map[s], market |-> m.symbol_market_map[s]]

EntryOf(data) ==
    [exchange |-> Exchange_SGE, name |-> data.Name, size |-> data.Unit,
     market |-> data.MarketID]

\* C11 (as stated): once a symbol's reference entry has been created, every
\* later event, a later instrument response with other values included,
\* leaves the entry as the first response created it.
C11_EntryAsFirstCreated ==
    \A s \in DOMAIN hist.firstEntry :
        /\ s \in DOMAIN maps.symbol_exchange_map
        /\ Entry(maps, s) = EntryOf(hist.firstEntry[s])

\* C11 (amended): an entry is never removed and its exchange never changes;
\* an instrument response for the symbol replaces name, size and market by
\* the values it carries, and no other event changes the entry.
C11_EntryFollowsLatestResponse ==
    [][\A s \in DOMAIN maps.symbol_exchange_map :
          /\ s \in DOMAIN maps'.symbol_exchange_map
          /\ maps'.symbol_exchange_map[s] = maps.symbol_exchange_map[s]
          /\ IF hist'.nInstr # hist.nInstr /\ hist'.instrArg.InstID = s
             THEN Entry(maps', s) = EntryOf(hist'.instrArg)
             ELSE Entry(maps', s) = Entry(maps, s)]_vars

\* after a second login a response has replaced the values of an entry
C11_Witness ==
    /\ hist.nFront = 2
    /\ \E s \in DOMAIN hist.firstEntry :
          /\ s \in DOMAIN maps.symbol_exchange_map
          /\ Entry(maps, s) # EntryOf(hist.firstEntry[s])
          /\ Entry(maps, s) = EntryOf(hist.instrArg)

----------------------------------------------------------------------------
(* Properties of the offset tables (SpecOffset) *)

\* every normalized offset with a vendor code translates to its primary
\* code, never to the alias 48
OutgoingOnlyPrimary ==
    \A i \in DOMAIN hist.xlat :
        hist.xlat[i].dir = "out" =>
            /\ hist.xlat[i].result # Code48
            /\ hist.xlat[i].arg = "OPEN"  => hist.xlat[i].result = KS_P_OPEN
            /\ hist.xlat[i].arg = "CLOSE" => hist.xlat[i].result = KS_P_OFFSET

\* C12 (as stated): vendor code 48 and the primary close code both
\* translate to CLOSE, and the outgoing table produces only primary codes.
C12_Code48TranslatesToClose ==
    /\ \A i \in DOMAIN hist.xlat :
          (hist.xlat[i].dir = "in" /\ hist.xlat[i].arg \in {Code48, KS_P_OFFSET})
              => hist.xlat[i].result = "CLOSE"
    /\ OutgoingOnlyPrimary

\* C12 (amended): vendor code 48 and the primary open code both translate
\* to OPEN, the primary close code translates to CLOSE, and the outgoing
\* table produces only primary codes.
C12_Code48TranslatesToOpen ==
    /\ \A i \in DOMAIN hist.xlat :
          /\ (hist.xlat[i].dir = "in" /\ hist.xlat[i].arg \in {Code48, KS_P_OPEN})
                => hist.xlat[i].result = "OPEN"
          /\ (hist.xlat[i].dir = "in" /\ hist.xlat[i].arg = KS_P_OFFSET)
                => hist.xlat[i].result = "CLOSE"
    /\ OutgoingOnlyPrimary

\* code 48 has been translated, and so have both normalized offsets
C12_Witness ==
    /\ \E i \in DOMAIN hist.xlat :
          hist.xlat[i].dir = "in" /\ hist.xlat[i].arg = Code48
    /\ \E i \in DOMAIN hist.xlat :
          hist.xlat[i].dir = "out" /\ hist.xlat[i].arg = "CLOSE"
    /\ \E i \in DOMAIN hist.xlat :
          hist.xlat[i].dir = "out" /\ hist.xlat[i].arg = "OPEN"

----------------------------------------------------------------------------
(* Properties of cancellation (SpecCancel) *)

\* the reports for order id X that got past the buffering test of onRtnOrder
HandledFor(X) == {i \in DOMAIN hist.handledOrd : hist.handledOrd[i].orderid = X}

LatestLocalNo(X) ==
    hist.handledOrd[CHOOSE i \in HandledFor(X) : \A j \in HandledFor(X) : j <= i].localid

\* C13: once an order report for local id X has been processed (its symbol
\* was cached, so onRtnOrder registered the report), every later
\* cancel_order(X) issues exactly one vendor call, reqOrderAction with the
\* next request id and the vendor local order number of the latest such
\* report for X.
C13_CancelCarriesLatestLocalNo ==
    [][ (hist'.nCancel = hist.nCancel + 1 /\ HandledFor(hist'.cancelArg) # {})
          => ven'.calls =
               Append(ven.calls,
                      [api |-> "td", fn |-> "reqOrderAction",
                       reqid |-> td.reqid + 1,
                       arg |-> [LocalOrderNo |-> LatestLocalNo(hist'.cancelArg)]]) ]_vars

\* an order was reported with one local number and then with another, the
\* connection was lost and made again, and the cancel request carries the
\* second number
C13_Witness ==
    /\ hist.nCancel = 1
    /\ hist.nFront = 2
    /\ Len(hist.handledOrd) = 2
    /\ hist.handledOrd[1].localid # hist.handledOrd[2].localid
    /\ hist.handledOrd[1].orderid = hist.cancelArg
    /\ hist.handledOrd[2].orderid = hist.cancelArg
    /\ ven.calls # <<>>
    /\ Last(ven.calls).fn = "reqOrderAction"
    /\ Last(ven.calls).arg.LocalOrderNo = hist.handledOrd[2].localid

----------------------------------------------------------------------------
(* Properties of the position query (SpecPosition) *)

\* C14: a position response with a nonzero error code emits no position
\* event and writes one log entry when the code is not 10001; a response
\* with error code 0 emits exactly two position events for the instrument,
\* the long one and then the short one.
C14_PositionResponse ==
    [][ hist'.nRspPos = hist.nRspPos + 1 =>
          LET data == hist'.posArg.data
              code == hist'.posArg.error.ErrorID
              emitted == SubSeq(out'.positions, Len(out.positions) + 1,
                                Len(out'.positions))
          IN  /\ SubSeq(out'.positions, 1, Len(out.positions)) = out.positions
              /\ code # 0 => emitted = <<>>
              /\ (code # 0 /\ code # 10001) =>
                    /\ Len(out'.logs) = Len(out.logs) + 1
                    /\ Last(out'.logs).code = code
              /\ code = 0 =>
                    /\ Len(emitted) = 2
                    /\ emitted[1].symbol = data.InstID
                    /\ emitted[2].symbol = data.InstID
                    /\ emitted[1].direction = "LONG"
                    /\ emitted[2].direction = "SHORT" ]_vars

\* a "no position" response (10001) and a successful response have both
\* been handled
C14_Witness ==
    /\ hist.nRspPos = 2
    /\ hist.posArg.error.ErrorID = 10001
    /\ Len(out.positions) = 2
    /\ out.positions[1].direction = "LONG"
    /\ out.positions[2].direction = "SHORT"

----------------------------------------------------------------------------
(* Properties of the tick conversion (SpecTick) *)

Sanitized(price) == IF price = MAX_FLOAT THEN 0 ELSE price

\* the levels 2 to 5 of the payload are populated
DeepBook(data) == data.BidLot2 # 0 \/ data.AskLot2 # 0

PopulatedFields(data) ==
    IF DeepBook(data) THEN PriceFields
    ELSE PriceFields \ {"Bid2", "Bid3", "Bid4", "Bid5", "Ask2", "Ask3", "Ask4", "Ask5"}

RawFields == {"Last", "highLimit", "lowLimit"}

\* the step emits the tick of the payload hist'.tickArg
TickEmitted ==
    /\ hist'.nTickData = hist.nTickData + 1
    /\ hist'.tickArg.InstID \in DOMAIN maps.symbol_exchange_map

\* C15 (as stated): in the emitted tick every price field (last, open, high,
\* low, previous close, limit up, limit down, bid and ask of each populated
\* level) that holds the sentinel in the payload is zero, and every other
\* one has the payload's value.
C15_EveryPriceSanitized ==
    [][ TickEmitted =>
          \A f \in PopulatedFields(hist'.tickArg) :
              out'.tick[TickFieldOf[f]] = Sanitized(hist'.tickArg[f]) ]_vars

\* C15 (amended): open, high, low, previous close and the bid and ask price
\* of each populated level are zero when the payload holds the sentinel and
\* the payload's value otherwise; last, limit up and limit down always have
\* the payload's value, the sentinel included.
C15_SanitizedExceptLastAndLimits ==
    [][ TickEmitted =>
          /\ \A f \in PopulatedFields(hist'.tickArg) \ RawFields :
                out'.tick[TickFieldOf[f]] = Sanitized(hist'.tickArg[f])
          /\ \A f \in RawFields :
                out'.tick[TickFieldOf[f]] = hist'.tickArg[f] ]_vars

\* a tick with a populated book was emitted whose payload held the sentinel
\* as the level-3 bid
C15_Witness ==
    /\ hist.nTickData > 0
    /\ out.tick # <<>>
    /\ out.tick.symbol = hist.tickArg.InstID
    /\ DeepBook(hist.tickArg)
    /\ hist.tickArg.Bid3 = MAX_FLOAT
    /\ out.tick.bid_price_3 = 0
    /\ out.tick.ask_price_3 = hist.tickArg.Ask3

----------------------------------------------------------------------------
(* Properties of the catalog query loop (SpecLoop) *)

QryCalls(calls) == SelectSeq(calls, LAMBDA c : c.fn = "reqQryInstrument")

\* the step calls reqQryInstrument
QryCallStep == Len(QryCalls(ven'.calls)) = Len(QryCalls(ven.calls)) + 1

\* C19: after a successful trading login the handler calls reqQryInstrument
\* again and again, each call with a request id larger than every id used
\* before on the connection; a refused call (nonzero return) keeps the
\* handler in the loop, an accepted call (return 0) ends it, nothing else
\* ends it, no step outside the loop calls reqQryInstrument, and a handler
\* in the loop gets out of it when the vendor accepts a call.
C19_QueryRetriedUntilAccepted ==
    /\ [][ QryCallStep =>
             /\ pc.cb = "qry"
             /\ Len(ven'.calls) = Len(ven.calls) + 1
             /\ \A i \in DOMAIN ven.calls :
                   ven.calls[i].api = "td" => ven.calls[i].reqid < Last(ven'.calls).reqid
             /\ pc'.cb = IF Last(ven'.calls).arg = 0 THEN "idle" ELSE "qry" ]_vars
    /\ [][ (pc.cb # "qry" /\ pc'.cb = "qry") =>
             (hist'.nLogin = hist.nLogin + 1 /\ td'.login_status) ]_vars
    /\ [][ (pc.cb = "qry" /\ pc'.cb # "qry") =>
             (QryCallStep /\ Last(ven'.calls).arg = 0 /\ ven'.qryPending) ]_vars
    /\ (pc.cb = "qry") ~> (pc.cb = "idle")

\* in the second login of the run a refused call was followed by the
\* accepted one, a query of the timer in between
C19_Witness ==
    /\ hist.nLogin = 2
    /\ pc.cb = "idle"
    /\ ven.qryPending
    /\ hist.nRefused = 1
    /\ Len(QryCalls(ven.calls)) >= 3
    /\ Last(ven.calls).fn = "reqQryInstrument"
    /\ ven.calls[Len(ven.calls) - 1].fn = "reqQryTradingAccount"
    /\ ven.calls[Len(ven.calls) - 2].fn = "reqQryInstrument"

----------------------------------------------------------------------------
(* Properties of send_order against the callback thread (SpecRace) *)

\* C20: for every order id, an order event that comes from a vendor callback
\* (an order report or an order-insert rejection; its status is not
\* SUBMITTING) is emitted after the SUBMITTING event send_order emits for
\* that order id.
C20_SubmittingEmittedFirst ==
    \A i \in DOMAIN out.orders :
        out.orders[i].status # "SUBMITTING"
            => \E j \in 1..(i - 1) :
                  /\ out.orders[j].orderid = out.orders[i].orderid
                  /\ out.orders[j].status = "SUBMITTING"

----------------------------------------------------------------------------
(* Properties of the reference cache under two threads (SpecCache) *)

\* C21: whatever the trading thread has written so far, the tick handler
\* either drops the tick because the symbol has no exchange entry, or finds
\* the name entry too and emits the tick with it; it never raises.
C21_TickDroppedOrComplete ==
    [][ hist'.nTickData = hist.nTickData + 1 =>
          LET symbol == hist'.tickArg.InstID
          IN  \/ /\ symbol \notin DOMAIN maps.symbol_exchange_map
                 /\ out' = out
                 /\ hist'.exc = ""
              \/ /\ symbol \in DOMAIN maps.symbol_exchange_map
                 /\ symbol \in DOMAIN maps.symbol_name_map
                 /\ out'.tick.symbol = symbol
                 /\ out'.tick.name = maps.symbol_name_map[symbol]
                 /\ hist'.exc = "" ]_vars

----------------------------------------------------------------------------
(* Properties of the local-number tables (SpecCancel) *)

\* C22: after any sequence of order reports orderid_localid_map and
\* localid_orderid_map are inverse of each other: the first maps order id
\* X to local number N exactly when the second maps N to X.
C22_LocalNoTablesInverse ==
    LET A == maps.orderid_localid_map
        B == maps.localid_orderid_map
    IN  /\ \A X \in DOMAIN A : A[X] \in DOMAIN B /\ B[A[X]] = X
        /\ \A N \in DOMAIN B : B[N] \in DOMAIN A /\ A[B[N]] = N

----------------------------------------------------------------------------
(* Properties of the market-data login (SpecMd) *)

\* C23: the market-data connection logs in like the trading connection:
\* once a market-data login response carried a nonzero error code no
\* further market-data login request is issued, and a step that issues one
\* is the handling of a front-connected notification, never a connect()
\* call.
C23_MdLoginLikeTd ==
    [][ LET before == CallsTo(ven.calls, "md", "reqUserLogin")
            after  == CallsTo(ven'.calls, "md", "reqUserLogin")
        IN  /\ hist.mdLoginRejected => after = before
            /\ after # before => /\ hist'.nMdFront = hist.nMdFront + 1
                                 /\ hist'.nConnect = hist.nConnect ]_vars

====
